---------------------------- MODULE Spec2Model ----------------------------
(***************************************************************************)
(* Model of fx_hist_pipeline_v1_3/pipeline.py: the minute-bar              *)
(* reconciliation pipeline (calendar grid, gap detection, small-gap        *)
(* imputation, tick-archive backfill, session/QC filter, bulk loader and   *)
(* the batch driver).                                                      *)
(*                                                                         *)
(* Time is counted in whole UTC minutes since a Monday 00:00 UTC, so that  *)
(* pandas' weekday (Monday = 0 ... Sunday = 6) is (ts \div 1440) % 7 and   *)
(* "60 seconds apart" is a difference of 1.  A Series (a DataFrame indexed *)
(* by timestamp) is a function from its set of timestamps to bars; the     *)
(* index order is the numeric order of the timestamps.                     *)
(***************************************************************************)
EXTENDS Integers, Sequences, FiniteSets, TLC

VARIABLES
    pc,            \* position of the command being run
    src,           \* the Series handed to the first stage
    df,            \* the Series after the stages applied so far
    prev,          \* the Series before the last stage applied
    gaps,          \* the last gap report
    impute_max,    \* max_gap_min of impute_small_gaps
    dukascopy_max, \* max_gap_min of apply_dukascopy_backfill
    archive,       \* the kind of body the tick archive holds, by UTC hour
    grid,          \* the calendar grid last built
    sessions,      \* session_specs: the configured sessions, in order
    min_fill_ratio, \* QC: the fill ratio, in hundredths
    min_bars_abs,  \* QC: the absolute minimum of bars per hour
    in_session,    \* the session mask last computed, by timestamp
    ok_by_hour,    \* QC: the keep decision of each UTC hour
    store,         \* the rows of the table fx_m1, by <<symbol, ts>>
    symbol,        \* the symbol being loaded
    chunksize,     \* rows per copy_from call
    row_i,         \* to_postgres_copy: i, the rows handed to copy_from so far
    copies,        \* copy_from calls of the current load
    loads,         \* loads of the Series started so far
    cfg,           \* cmd_run: the symbols of the configuration, in order
    sym_i,         \* cmd_run: the position of the loop in cfg
    visited,       \* cmd_run: the positions whose iteration began
    failed,        \* cmd_run: the positions whose iteration raised
    files,         \* load_histdata_many: the input files, each a list of rows
    served,        \* the body the archive serves for an hour of kind "raw"
    win,           \* dukascopy_m1: <<start, end>> of the call
    blob,          \* dukascopy_m1: the body fetched for the hour of the loop
    hour_ticks,    \* dukascopy_m1: the ticks parsed from blob
    hour_bars,     \* dukascopy_m1: the minute bars collected so far
    hour_i,        \* dukascopy_m1: the hours of the loop done so far
    attempts,      \* fetch_bi5: the GETs made so far
    responses,     \* fetch_bi5: what each GET answered, in order
    requested,     \* the archive hours the backfill asked for
    emitted        \* to_postgres_copy: the batches written to a buffer, in order

pipeVars == <<src, df, prev, gaps, impute_max, dukascopy_max, archive>>

qcVars == <<sessions, min_fill_ratio, min_bars_abs, in_session, ok_by_hour>>

loadVars == <<store, symbol, chunksize, row_i, copies, loads>>

runVars == <<cfg, sym_i, visited, failed>>

readVars == <<files>>

tickVars == <<served, win, blob, hour_ticks, hour_bars, hour_i, attempts, responses>>

obsVars == <<requested, emitted>>

vars == <<pc, pipeVars, grid, qcVars, loadVars, runVars, readVars, tickVars, obsVars>>

---------------------------------------------------------------------------
(* Calendar *)

MinutesPerDay == 1440
MinutesPerHour == 60
DaysPerWeek == 7

\* pandas DatetimeIndex.weekday of a UTC minute: Monday = 0 ... Sunday = 6
Weekday(ts) == (ts \div MinutesPerDay) % DaysPerWeek

\* The missing marker (NaN / None) of a numeric cell and of the source cell
NaN == -1
NoSource == "none"

SetMin(S) == CHOOSE x \in S : \A y \in S : x <= y
SetMax(S) == CHOOSE x \in S : \A y \in S : x >= y

\* minute_grid changed so that it filters Sunday only
minute_grid_sunday_only(d) ==
    IF DOMAIN d = {} THEN {}
    ELSE {m \in SetMin(DOMAIN d)..SetMax(DOMAIN d) : Weekday(m) \notin {6}}

\* minute_grid: every minute from the first to the last timestamp of the
\* Series whose UTC weekday is not Saturday (5) or Sunday (6)
minute_grid(d) ==
    IF DOMAIN d = {} THEN {}
    ELSE {m \in SetMin(DOMAIN d)..SetMax(DOMAIN d) : Weekday(m) \notin {5, 6}}

---------------------------------------------------------------------------
(* Series helpers (pandas operations used by the pipeline) *)

EmptySeries == [m \in {} |-> 0]

NaNBar == [open |-> NaN, high |-> NaN, low |-> NaN, close |-> NaN,
           volume |-> NaN, source |-> NoSource]

\* df.reindex(full): the rows of d at the labels of full, missing rows NaN
Reindex(d, full) == [m \in full |-> IF m \in DOMAIN d THEN d[m] ELSE NaNBar]

\* df.dropna(subset=["close"])
DropNaClose(d) == [m \in {k \in DOMAIN d : d[k].close # NaN} |-> d[m]]

\* out["close"].ffill() read at label m: the close at m, else the last
\* non-missing close at an earlier label, else still missing
FFillClose(out, m) ==
    IF out[m].close # NaN THEN out[m].close
    ELSE LET before == {k \in DOMAIN out : k < m /\ out[k].close # NaN}
         IN  IF before = {} THEN NaN ELSE out[SetMax(before)].close

\* pd.date_range(start, periods=n, freq="T")
DateRangePeriods(start, n) == start..(start + n - 1)

RECURSIVE SortedSeq(_)
\* The labels of an index in index order
SortedSeq(S) ==
    IF S = {} THEN <<>>
    ELSE LET x == SetMin(S) IN <<x>> \o SortedSeq(S \ {x})

---------------------------------------------------------------------------
(* Gap Detector *)

RECURSIVE GapWalk(_, _, _, _)
\* The loop of gap_report over missing[1:], and the append after it
GapWalk(rest, run_start, prv, acc) ==
    IF rest = <<>>
    THEN Append(acc, [start |-> run_start, len_min |-> (prv - run_start) + 1])
    ELSE LET ts == Head(rest) IN
         IF ts - prv # 1
         THEN GapWalk(Tail(rest), ts, ts,
                      Append(acc, [start |-> run_start,
                                   len_min |-> (prv - run_start) + 1]))
         ELSE GapWalk(Tail(rest), run_start, ts, acc)

RECURSIVE InsertByStart(_, _)
InsertByStart(s, r) ==
    IF s = <<>> THEN <<r>>
    ELSE IF r.start < Head(s).start THEN <<r>> \o s
    ELSE <<Head(s)>> \o InsertByStart(Tail(s), r)

RECURSIVE SortByStart(_)
\* sort_values("start") of the gap frame
SortByStart(s) ==
    IF s = <<>> THEN <<>> ELSE InsertByStart(SortByStart(Tail(s)), Head(s))

\* gap_report changed so that it starts a new run at every missing minute
gap_report_no_merge(d) ==
    IF DOMAIN d = {} THEN <<>>
    ELSE LET missing == SortedSeq(minute_grid(d) \ DOMAIN d)
         IN  [i \in 1..Len(missing) |-> [start |-> missing[i], len_min |-> 1]]

\* gap_report: the maximal runs of grid minutes absent from the index
gap_report(d) ==
    IF DOMAIN d = {} THEN <<>>
    ELSE LET full == minute_grid(d)
             missing == SortedSeq(full \ DOMAIN d)
         IN  IF Len(missing) = 0 THEN <<>>
             ELSE SortByStart(GapWalk(Tail(missing), missing[1], missing[1], <<>>))

---------------------------------------------------------------------------
(* Small-Gap Imputer *)

\* SmallGapMask changed so that it takes the runs of every length
SmallGapMaskAnyLength(d, max_gap_min) ==
    LET g == gap_report(DropNaClose(d))
    IN  UNION {DateRangePeriods(g[i].start, g[i].len_min) : i \in 1..Len(g)}

\* The rows of the runs of length <= max_gap_min (the mask of the loop)
SmallGapMask(d, max_gap_min) ==
    LET g == gap_report(DropNaClose(d))
    IN  UNION {DateRangePeriods(g[i].start, g[i].len_min) :
                  i \in {j \in 1..Len(g) : g[j].len_min <= max_gap_min}}

impute_small_gaps(d, max_gap_min) ==
    IF DOMAIN d = {} THEN d
    ELSE LET full == minute_grid(d)
             out == Reindex(d, full)
             mask == SmallGapMask(d, max_gap_min)
         IN  [m \in full |->
                IF m \in mask
                THEN LET c == FFillClose(out, m)
                     IN  [open |-> c, high |-> c, low |-> c, close |-> c,
                          volume |-> 0, source |-> "imputed"]
                ELSE out[m]]

---------------------------------------------------------------------------
(* Tick-Archive Backfill Client *)

MsPerMinute == 60000
WordsPerTick == 5
BytesPerWord == 4
PadMinutes == 2

\* The start of the UTC hour of a minute (replace(minute=0, second=0, ...))
HourFloor(ts) == (ts \div MinutesPerHour) * MinutesPerHour

\* What one GET of an hourly archive answers: NoBlob (no 200, an empty body
\* or exhausted retries), or a blob [lzma_ok, words, extra]: whether it
\* decompresses, the big-endian int32 words of the payload and the count
\* of bytes after the last whole word
NoBlob == [lzma_ok |-> FALSE, words |-> <<>>, extra |-> 0, body |-> FALSE]

\* len(data) of the decompressed payload
PayloadBytes(raw) == BytesPerWord * Len(raw.words) + raw.extra

\* What leaves parse_bi5_to_ticks as an exception: lzma.LZMAError is
\* caught; np.frombuffer raises on a length that is no multiple of 4 and
\* reshape(-1, 5) on a word count that is no multiple of 5, and both come
\* after the length check
parse_bi5_raises(raw) ==
    /\ raw.body
    /\ raw.lzma_ok
    /\ PayloadBytes(raw) % (BytesPerWord * WordsPerTick) = 0
    /\ (raw.extra # 0 \/ Len(raw.words) % WordsPerTick # 0)

\* parse_bi5_to_ticks changed so that it reads the whole records of a
\* payload of any length
parse_bi5_any_length(raw) ==
    IF ~raw.body THEN <<>>
    ELSE IF ~raw.lzma_ok THEN <<>>
    ELSE [r \in 1..(Len(raw.words) \div WordsPerTick) |->
            [ms      |-> raw.words[WordsPerTick * (r - 1) + 1],
             ask     |-> raw.words[WordsPerTick * (r - 1) + 2],
             bid     |-> raw.words[WordsPerTick * (r - 1) + 3],
             ask_vol |-> raw.words[WordsPerTick * (r - 1) + 4],
             bid_vol |-> raw.words[WordsPerTick * (r - 1) + 5]]]

\* parse_bi5_to_ticks: the 20-byte records of the payload, none for an
\* empty blob, a failed decompression or a length that is no multiple of 20
parse_bi5_to_ticks(raw) ==
    IF ~raw.body THEN <<>>
    ELSE IF ~raw.lzma_ok THEN <<>>
    ELSE IF (BytesPerWord * Len(raw.words) + raw.extra) % (BytesPerWord * WordsPerTick) # 0
    THEN <<>>
    ELSE [r \in 1..(Len(raw.words) \div WordsPerTick) |->
            [ms      |-> raw.words[WordsPerTick * (r - 1) + 1],
             ask     |-> raw.words[WordsPerTick * (r - 1) + 2],
             bid     |-> raw.words[WordsPerTick * (r - 1) + 3],
             ask_vol |-> raw.words[WordsPerTick * (r - 1) + 4],
             bid_vol |-> raw.words[WordsPerTick * (r - 1) + 5]]]

\* The ticks an archive hour of kind "full" holds for minute k of the hour:
\* three ticks, the bid rising then falling back
TickWords(hdt, k, j) ==
    LET p == 200 + ((hdt + k) % 97)
    IN  IF j = 1 THEN <<k * MsPerMinute, p + 5, p, 1, 1>>
        ELSE IF j = 2 THEN <<k * MsPerMinute + 20000, p + 7, p + 2, 1, 2>>
        ELSE <<k * MsPerMinute + 59999, p + 6, p + 1, 1, 3>>

RECURSIVE FlattenTicks(_, _)
FlattenTicks(hdt, ks) ==
    IF ks = <<>> THEN <<>>
    ELSE TickWords(hdt, Head(ks), 1) \o TickWords(hdt, Head(ks), 2)
         \o TickWords(hdt, Head(ks), 3) \o FlattenTicks(hdt, Tail(ks))

\* The body the archive serves for hour hdt, by the kind of the hour:
\* "none" nothing, "full" ticks in every minute, "odd" in the odd minutes,
\* "raw" the body held in served
BlobOf(kind, hdt) ==
    IF kind = "none" THEN NoBlob
    ELSE IF kind = "raw" THEN served
    ELSE LET ks == IF kind = "full" THEN 0..(MinutesPerHour - 1)
                   ELSE {k \in 0..(MinutesPerHour - 1) : k % 2 = 1}
         IN  [lzma_ok |-> TRUE, words |-> FlattenTicks(hdt, SortedSeq(ks)),
              extra |-> 0, body |-> TRUE]

\* fetch_bi5 as its caller sees it: the body of the hour, or nothing
fetch_bi5(arch, hdt) ==
    IF hdt \in DOMAIN arch THEN BlobOf(arch[hdt], hdt) ELSE NoBlob

RECURSIVE SumBidVol(_, _)
SumBidVol(ticks, idx) ==
    IF idx = {} THEN 0
    ELSE LET i == SetMin(idx) IN ticks[i].bid_vol + SumBidVol(ticks, idx \ {i})

\* ResampleM1 changed so that the close is the first bid of the minute
ResampleM1CloseFirst(hdt, ticks) ==
    LET bin(i) == hdt + (ticks[i].ms \div MsPerMinute)
        bins == {bin(i) : i \in DOMAIN ticks}
    IN  [m \in bins |->
            LET idx == {i \in DOMAIN ticks : bin(i) = m}
                bids == {ticks[i].bid : i \in idx}
            IN  [open   |-> ticks[SetMin(idx)].bid,
                 high   |-> SetMax(bids),
                 low    |-> SetMin(bids),
                 close  |-> ticks[SetMin(idx)].bid,
                 volume |-> SumBidVol(ticks, idx)]]

\* The per-minute bars of one hour's ticks: resample("T") first/max/min/last
\* of the bid and the sum of the bid volume, the minutes without a tick dropped
ResampleM1(hdt, ticks) ==
    LET bin(i) == hdt + (ticks[i].ms \div MsPerMinute)
        bins == {bin(i) : i \in DOMAIN ticks}
    IN  [m \in bins |->
            LET idx == {i \in DOMAIN ticks : bin(i) = m}
                bids == {ticks[i].bid : i \in idx}
            IN  [open   |-> ticks[SetMin(idx)].bid,
                 high   |-> SetMax(bids),
                 low    |-> SetMin(bids),
                 close  |-> ticks[SetMax(idx)].bid,
                 volume |-> SumBidVol(ticks, idx)]]

\* The hours dukascopy_m1 asks for: range(hours) from start, each floored
dukascopy_hours(start, end) ==
    LET hours == ((end - start) \div MinutesPerHour) + 1
    IN  [i \in 1..hours |-> HourFloor(start + (i - 1) * MinutesPerHour)]

\* pd.concat([acc, bars]).sort_index() without the duplicated labels,
\* keeping the last: the bar of the later frame
ConcatBars(acc, bars) ==
    [m \in DOMAIN acc \cup DOMAIN bars |->
        IF m \in DOMAIN bars THEN bars[m] ELSE acc[m]]

RECURSIVE ConcatM1(_, _, _)
\* pd.concat of the hours' bars, sorted, duplicates keeping the last
ConcatM1(hs, arch, acc) ==
    IF hs = <<>> THEN acc
    ELSE LET hdt == Head(hs)
             raw == fetch_bi5(arch, hdt)
             ticks == parse_bi5_to_ticks(raw)
             m1 == IF ~raw.body \/ ticks = <<>> THEN EmptySeries
                   ELSE ResampleM1(hdt, ticks)
         IN  ConcatM1(Tail(hs), arch, ConcatBars(acc, m1))

\* dukascopy_m1(symbol, start, end) against the archive arch (hour -> kind)
dukascopy_m1(arch, start, end) ==
    ConcatM1(dukascopy_hours(start, end), arch, EmptySeries)

RECURSIVE RunWalk(_, _, _, _)
\* The grouping loop of apply_dukascopy_backfill over the missing labels
RunWalk(rest, run_start, prv, groups) ==
    IF rest = <<>> THEN Append(groups, <<run_start, prv>>)
    ELSE LET ts == Head(rest) IN
         IF ts - prv # 1
         THEN RunWalk(Tail(rest), ts, ts, Append(groups, <<run_start, prv>>))
         ELSE RunWalk(Tail(rest), run_start, ts, groups)

MissingGroups(out) ==
    LET missing == SortedSeq({m \in DOMAIN out : out[m].close = NaN})
    IN  IF missing = <<>> THEN <<>>
        ELSE RunWalk(Tail(missing), missing[1], missing[1], <<>>)

\* GapSlice changed so that it reaches over the padding of the window
GapSlicePadded(m1, gs, ge) == DOMAIN m1 \cap ((gs - PadMinutes)..(ge + PadMinutes))

\* m1.reindex(gap_index).dropna(...): the labels of the run that have a bar
GapSlice(m1, gs, ge) == DOMAIN m1 \cap (gs..ge)

RECURSIVE BackfillGroups(_, _, _, _)
\* The loop over the groups: each group of at most max_gap_min minutes is
\* overwritten where the archive has a bar of exactly that minute
BackfillGroups(out, groups, arch, max_gap_min) ==
    IF groups = <<>> THEN out
    ELSE LET gs == Head(groups)[1]
             ge == Head(groups)[2]
             nmin == (ge - gs) + 1
             start == gs - PadMinutes
             end == (ge + PadMinutes) + 1
             m1 == dukascopy_m1(arch, start, end)
             slice == GapSlice(m1, gs, ge)
         IN  IF nmin > max_gap_min \/ DOMAIN m1 = {} \/ slice = {}
             THEN BackfillGroups(out, Tail(groups), arch, max_gap_min)
             ELSE BackfillGroups(
                      [m \in DOMAIN out |->
                          IF m \in slice
                          THEN [open |-> m1[m].open, high |-> m1[m].high,
                                low |-> m1[m].low, close |-> m1[m].close,
                                volume |-> m1[m].volume, source |-> "dukascopy"]
                          ELSE out[m]],
                      Tail(groups), arch, max_gap_min)

\* The hours whose archive the loop over the groups asks fetch_bi5 for
RequestedHours(d, max_gap_min) ==
    IF DOMAIN d = {} THEN {}
    ELSE LET groups == MissingGroups(Reindex(d, minute_grid(d)))
             asked(g) == dukascopy_hours(g[1] - PadMinutes, (g[2] + PadMinutes) + 1)
         IN  UNION {{asked(groups[a])[b] : b \in DOMAIN asked(groups[a])} :
                       a \in {c \in DOMAIN groups :
                                 (groups[c][2] - groups[c][1]) + 1 <= max_gap_min}}

apply_dukascopy_backfill(d, arch, max_gap_min) ==
    IF DOMAIN d = {} THEN d
    ELSE LET out == Reindex(d, minute_grid(d))
         IN  BackfillGroups(out, MissingGroups(out), arch, max_gap_min)

---------------------------------------------------------------------------
(* Sessions & QC *)

\* tz.gettz(name): the UTC offset, in minutes, the zone has at a UTC
\* minute.  "UTC" and "EST" are fixed; "DST" is a zone that moves its
\* clocks forward by an hour at DstSwitch
DstSwitch == MinutesPerDay + 9 * MinutesPerHour     \* Tuesday 09:00 UTC

UtcOffset(zone, ts) ==
    IF zone = "UTC" THEN 0
    ELSE IF zone = "EST" THEN 0 - 5 * MinutesPerHour
    ELSE IF ts < DstSwitch THEN 0 ELSE MinutesPerHour

\* local.hour * 60 + local.minute of index_utc.tz_convert(tzinfo)
LocalMinute(zone, ts) ==
    LET l == ts + UtcOffset(zone, ts)
    IN  ((l \div MinutesPerHour) % 24) * 60 + (l % MinutesPerHour)

\* A session window whose end minute is not part of it
SessionMatchEndExclusive(s, ts) ==
    LET lt == LocalMinute(s.tz, ts)
        start_min == s.start[1] * 60 + s.start[2]
        end_min == s.end[1] * 60 + s.end[2]
    IN  IF end_min >= start_min
        THEN lt >= start_min /\ lt < end_min
        ELSE lt >= start_min \/ lt < end_min

\* The mask m of one session at one timestamp; start and end are the
\* <<hour, minute>> pairs of "HH:MM"
SessionMatch(s, ts) ==
    LET lt == LocalMinute(s.tz, ts)
        start_min == s.start[1] * 60 + s.start[2]
        end_min == s.end[1] * 60 + s.end[2]
    IN  IF end_min >= start_min
        THEN lt >= start_min /\ lt <= end_min
        ELSE lt >= start_min \/ lt <= end_min

RECURSIVE SessionFold(_, _, _)
\* The loop over session_specs: mask |= m
SessionFold(index_utc, specs, mask) ==
    IF specs = <<>> THEN mask
    ELSE SessionFold(index_utc, Tail(specs),
                     [ts \in index_utc |-> mask[ts] \/ SessionMatch(Head(specs), ts)])

compute_session_mask(index_utc, session_specs) ==
    SessionFold(index_utc, session_specs, [ts \in index_utc |-> FALSE])

\* expected_minutes_by_hour: per UTC hour of the range of the index, the
\* count of in-session minutes of the range in that hour
expected_minutes_by_hour(index_utc, session_specs) ==
    IF index_utc = {} THEN EmptySeries
    ELSE LET lo == SetMin(index_utc)
             hi == SetMax(index_utc)
             mask == compute_session_mask(lo..hi, session_specs)
         IN  [h \in {HourFloor(m) : m \in lo..hi} |->
                Cardinality({m \in h..(h + MinutesPerHour - 1) :
                                m >= lo /\ m <= hi /\ mask[m]})]

\* np.ceil(expected * min_fill_ratio), the ratio given in hundredths
CeilRatio(expected, pct) == (expected * pct + 99) \div 100

IntMax(a, b) == IF a >= b THEN a ELSE b

\* QcOk changed so that it compares with the floor of expected * ratio
QcOkFloor(d, session_specs, pct, abs) ==
    LET in_sess == compute_session_mask(DOMAIN d, session_specs)
        expected == expected_minutes_by_hour(DOMAIN d, session_specs)
    IN  [h \in DOMAIN expected |->
            Cardinality({m \in DOMAIN d : HourFloor(m) = h /\ d[m].close # NaN /\ in_sess[m]})
                >= IntMax((expected[h] * pct) \div 100, abs)]

\* aligned["ok"] of prefilter_sessions_qc, d the reindexed frame
QcOk(d, session_specs, pct, abs) ==
    LET in_sess == compute_session_mask(DOMAIN d, session_specs)
        expected == expected_minutes_by_hour(DOMAIN d, session_specs)
        bars(h) == Cardinality({m \in DOMAIN d :
                                   HourFloor(m) = h /\ d[m].close # NaN /\ in_sess[m]})
    IN  [h \in DOMAIN expected |->
            bars(h) >= IntMax(CeilRatio(expected[h], pct), abs)]

\* prefilter_sessions_qc changed so that it keeps the out-of-session rows
\* of a kept hour
prefilter_keep_whole_hour(d0, session_specs, pct, abs) ==
    IF DOMAIN d0 = {} THEN d0
    ELSE LET d == Reindex(d0, minute_grid(d0))
             ok == QcOk(d, session_specs, pct, abs)
         IN  [m \in {k \in DOMAIN d : ok[HourFloor(k)]} |-> d[m]]

prefilter_sessions_qc(d0, session_specs, pct, abs) ==
    IF DOMAIN d0 = {} THEN d0
    ELSE LET d == Reindex(d0, minute_grid(d0))
             in_sess == compute_session_mask(DOMAIN d, session_specs)
             ok == QcOk(d, session_specs, pct, abs)
             keep == {m \in DOMAIN d :
                         in_sess[m] /\ (HourFloor(m) \in DOMAIN ok /\ ok[HourFloor(m)])}
         IN  [m \in keep |-> d[m]]

---------------------------------------------------------------------------
(* Loader Adapter *)

\* The text of one row as iter_rows builds it, character classes only: a
\* "cell" stands for the text of one formatted field.  The fields are
\* joined with the two characters backslash, t and the row ends with the
\* two characters backslash, n (the literals "\\t" and "\\n" of the code)
JoinSep == <<"\\", "t">>
RowEnd == <<"\\", "n">>

\* What COPY ... FROM STDIN splits on (psycopg2 copy_from, sep = "\t"): the
\* tab character between attributes and the newline character between rows
CopyDelimiter == "\t"
CopyNewline == "\n"

\* The columns of the COPY
CopyColumns == <<"symbol", "ts", "open", "high", "low", "close", "volume", "source">>

RECURSIVE JoinCells(_)
\* sep.join of n cells
JoinCells(n) ==
    IF n = 0 THEN <<>>
    ELSE IF n = 1 THEN <<"cell">>
    ELSE <<"cell">> \o JoinSep \o JoinCells(n - 1)

\* The line iter_rows yields for one row
RowText == JoinCells(Len(CopyColumns)) \o RowEnd

RECURSIVE BufferText(_)
\* The buffer of a batch of n rows
BufferText(n) == IF n = 0 THEN <<>> ELSE RowText \o BufferText(n - 1)

\* The pieces of text between the occurrences of the character c
SplitAt(text, c) ==
    LET cuts == SortedSeq({0, Len(text) + 1} \cup {p \in 1..Len(text) : text[p] = c})
    IN  [k \in 1..(Len(cuts) - 1) |-> SubSeq(text, cuts[k] + 1, cuts[k + 1] - 1)]

\* The rows COPY reads from a buffer (a newline ends a row; the text after
\* the last newline, when there is any, is a row too) and the attributes of
\* each row
CopyRows(text) ==
    LET parts == SplitAt(text, CopyNewline)
    IN  IF parts[Len(parts)] = <<>> THEN SubSeq(parts, 1, Len(parts) - 1) ELSE parts
CopyAttributes(line) == SplitAt(line, CopyDelimiter)

\* COPY accepts the buffer of a batch of n rows when it reads n rows of
\* one cell per column
BufferWellFormed(n) ==
    LET rows == CopyRows(BufferText(n))
    IN  /\ Len(rows) = n
        /\ \A r \in 1..Len(rows) :
               LET attrs == CopyAttributes(rows[r])
               IN  /\ Len(attrs) = Len(CopyColumns)
                   /\ \A a \in 1..Len(attrs) : attrs[a] = <<"cell">>

\* str(row.get("source", "histdata") or "histdata"): a missing source cell
\* is NaN, which is true in Python and prints as "nan"
SourceText(src_cell) == IF src_cell = NoSource THEN "nan" ELSE src_cell

\* A number column whose cell the row leaves empty ("" is not a double)
HasEmptyNumber(bar) ==
    \/ bar.open = NaN \/ bar.high = NaN \/ bar.low = NaN
    \/ bar.close = NaN \/ bar.volume = NaN

\* df.iloc[i:i+chunksize]: the timestamps of the batch, in order
BatchStamps(d, at, size) ==
    LET idx == SortedSeq(DOMAIN d)
        last == IF at + size <= Len(idx) THEN at + size ELSE Len(idx)
    IN  [j \in 1..(last - at) |-> idx[at + j]]

\* cur.copy_from of one batch into the table with PRIMARY KEY (symbol, ts):
\* one statement, all rows or none.  It raises when the text is not rows of
\* eight attributes, when a number cell is empty, or when a key is
\* already in the table
copy_from(tbl, sym, d, stamps) ==
    LET keys == {<<sym, stamps[j]>> : j \in 1..Len(stamps)}
    IN  IF ~BufferWellFormed(Len(stamps))
        THEN [raised |-> "BadCopyFileFormat", table |-> tbl]
        ELSE IF \E j \in 1..Len(stamps) : HasEmptyNumber(d[stamps[j]])
        THEN [raised |-> "InvalidTextRepresentation", table |-> tbl]
        ELSE IF keys \cap DOMAIN tbl # {}
        THEN [raised |-> "UniqueViolation", table |-> tbl]
        ELSE [raised |-> "no",
              table |-> [key \in DOMAIN tbl \cup keys |->
                            IF key \in keys
                            THEN [d[key[2]] EXCEPT !.source = SourceText(@)]
                            ELSE tbl[key]]]

RECURSIVE CopyLoop(_, _, _, _, _, _)
\* The while loop of to_postgres_copy from row offset at
CopyLoop(tbl, sym, d, size, at, calls) ==
    IF at >= Cardinality(DOMAIN d)
    THEN [raised |-> "no", table |-> tbl, copies |-> calls]
    ELSE LET stamps == BatchStamps(d, at, size)
             res == copy_from(tbl, sym, d, stamps)
         IN  IF res.raised # "no"
             THEN [raised |-> res.raised, table |-> res.table, copies |-> calls + 1]
             ELSE CopyLoop(res.table, sym, d, size, at + Len(stamps), calls + 1)

\* to_postgres_copy(df, symbol, dsn, table, chunksize) as one call
to_postgres_copy(tbl, sym, d, size) == CopyLoop(tbl, sym, d, size, 0, 0)

---------------------------------------------------------------------------
(* Inputs of the pipeline stages: Series around a weekend *)

FriTail == 3        \* minutes before Saturday 00:00 a Series may hold
MonHead == 3        \* minutes from Monday 00:00 a Series may hold
MaxNaNRows == 1     \* rows of a Series that may have an unparsable close
MaxGapMin == 2      \* largest max_gap_min tried

SatStart == 5 * MinutesPerDay
MonStart == DaysPerWeek * MinutesPerDay

\* Friday 23:57..23:59, Sunday 23:59, Monday 00:00..00:02
Stamps ==
    ((SatStart - FriTail)..(SatStart - 1)) \cup ((MonStart - 1)..(MonStart + MonHead - 1))

\* A bar as the Format Reader delivers it, its prices set by its minute
HistBar(ts) ==
    LET p == 100 + (ts % 97)
    IN  [open |-> p, high |-> p + 1, low |-> p - 1, close |-> p,
         volume |-> 1, source |-> "histdata"]

\* The same row with an unparsable close cell
NaNCloseBar(ts) == [HistBar(ts) EXCEPT !.close = NaN]

\* Every Series over a subset of Stamps, at most MaxNaNRows of its rows
\* with a missing close
InputSeries ==
    {[m \in S |-> IF m \in N THEN NaNCloseBar(m) ELSE HistBar(m)] :
        <<S, N>> \in {<<S1, N1>> \in (SUBSET Stamps) \X (SUBSET Stamps) :
                         N1 \subseteq S1 /\ Cardinality(N1) <= MaxNaNRows}}

\* An archive that holds no hour
NoArchive == [h \in {} |-> "none"]

IdleGrid == grid = {}

EmptyTable == [key \in {} |-> NaNBar]

IdleLoad ==
    /\ store = EmptyTable
    /\ symbol = "EURUSD"
    /\ chunksize = 1
    /\ row_i = 0
    /\ copies = 0
    /\ loads = 0

IdleRun ==
    /\ cfg = <<>>
    /\ sym_i = 0
    /\ visited = {}
    /\ failed = {}

IdleRead == files = <<>>

IdleTicks ==
    /\ served = NoBlob
    /\ win = <<0, 0>>
    /\ blob = NoBlob
    /\ hour_ticks = <<>>
    /\ hour_bars = EmptySeries
    /\ hour_i = 0
    /\ attempts = 0
    /\ responses = <<>>

IdleObs ==
    /\ requested = {}
    /\ emitted = <<>>

IdleQC ==
    /\ sessions = <<>>
    /\ min_fill_ratio = 0
    /\ min_bars_abs = 0
    /\ in_session = EmptySeries
    /\ ok_by_hour = EmptySeries

InitPipe ==
    /\ pc = "loaded"
    /\ src \in InputSeries
    /\ df = src
    /\ prev = EmptySeries
    /\ gaps = <<>>
    /\ impute_max \in 1..MaxGapMin
    /\ dukascopy_max = MaxGapMin + 1
    /\ archive = NoArchive
    /\ IdleGrid
    /\ IdleQC
    /\ IdleLoad
    /\ IdleRun
    /\ IdleRead
    /\ IdleTicks
    /\ IdleObs

\* cmd_gaps: the gap report over the rows with a close
GapReport ==
    /\ pc = "loaded"
    /\ gaps' = gap_report(DropNaClose(df))
    /\ pc' = "reported"
    /\ UNCHANGED <<src, df, prev, impute_max, dukascopy_max, archive, grid, qcVars, loadVars, runVars, readVars, tickVars, obsVars>>

\* impute_small_gaps applied to the loaded Series
Impute ==
    /\ pc = "loaded"
    /\ prev' = df
    /\ df' = impute_small_gaps(df, impute_max)
    /\ pc' = "imputed"
    /\ UNCHANGED <<src, gaps, impute_max, dukascopy_max, archive, grid, qcVars, loadVars, runVars, readVars, tickVars, obsVars>>

\* impute_small_gaps applied to its own result
ImputeAgain ==
    /\ pc = "imputed"
    /\ prev' = df
    /\ df' = impute_small_gaps(df, impute_max)
    /\ pc' = "imputed2"
    /\ UNCHANGED <<src, gaps, impute_max, dukascopy_max, archive, grid, qcVars, loadVars, runVars, readVars, tickVars, obsVars>>

\* apply_dukascopy_backfill applied to the imputed Series
Backfill ==
    /\ pc = "imputed"
    /\ prev' = df
    /\ df' = apply_dukascopy_backfill(df, archive, dukascopy_max)
    /\ requested' = RequestedHours(df, dukascopy_max)
    /\ pc' = "backfilled"
    /\ UNCHANGED <<src, gaps, impute_max, dukascopy_max, archive, grid, qcVars,
                   loadVars, runVars, readVars, tickVars, emitted>>

NextPipe == GapReport \/ Impute \/ ImputeAgain \/ Backfill

SpecPipe == InitPipe /\ [][NextPipe]_vars

---------------------------------------------------------------------------
(* The end-to-end scenario: one UTC day with a 3-minute and a 91-minute gap *)

GapAStart == 10 * MinutesPerHour + 15      \* 10:15
GapAEnd == 10 * MinutesPerHour + 17        \* 10:17
GapBStart == 14 * MinutesPerHour           \* 14:00
GapBEnd == 15 * MinutesPerHour + 30        \* 15:30

DayGapA(day) == (day * MinutesPerDay + GapAStart)..(day * MinutesPerDay + GapAEnd)
DayGapB(day) == (day * MinutesPerDay + GapBStart)..(day * MinutesPerDay + GapBEnd)

DaySeries(day) ==
    [m \in ((day * MinutesPerDay)..(day * MinutesPerDay + MinutesPerDay - 1))
             \ (DayGapA(day) \cup DayGapB(day)) |-> HistBar(m)]

\* The archive hours the 91-minute gap and its padding touch: 13:00..15:00
DayGapHours(day) == {day * MinutesPerDay + h * MinutesPerHour : h \in 13..15}

InitDay ==
    /\ pc = "loaded"
    /\ \E day \in 0..4 :
         /\ src = DaySeries(day)
         /\ \E held \in SUBSET DayGapHours(day) :
              archive = [h \in held |-> "full"]
    /\ df = src
    /\ prev = EmptySeries
    /\ gaps = <<>>
    /\ impute_max = 5
    /\ dukascopy_max = 120
    /\ IdleGrid
    /\ IdleQC
    /\ IdleLoad
    /\ IdleRun
    /\ IdleRead
    /\ IdleTicks
    /\ IdleObs

NextDay == Impute \/ Backfill

SpecDay == InitDay /\ [][NextDay]_vars

---------------------------------------------------------------------------
(* The calendar grid on its own: Series that span up to a week and more *)

MaxSpanDays == 7    \* longest range, in days, the grid is built over

\* Range starts: each day of the week at 00:00, 12:00 and 23:59
GridStarts == {d * MinutesPerDay + o : d \in 0..6, o \in {0, 720, MinutesPerDay - 1}}

\* Range lengths in minutes: 1, 2, and 1..MaxSpanDays whole days
GridSpans == {1, 2} \cup {k * MinutesPerDay : k \in 1..MaxSpanDays}

\* A Series with a bar at the first and at the last minute of the range
EndsSeries(lo, n) == [m \in {lo, lo + n - 1} |-> HistBar(m)]

InitGrid ==
    /\ pc = "loaded"
    /\ \/ src = EmptySeries
       \/ \E lo \in GridStarts, n \in GridSpans : src = EndsSeries(lo, n)
    /\ df = src
    /\ prev = EmptySeries
    /\ gaps = <<>>
    /\ impute_max = 0
    /\ dukascopy_max = 0
    /\ archive = NoArchive
    /\ IdleGrid
    /\ IdleQC
    /\ IdleLoad
    /\ IdleRun
    /\ IdleRead
    /\ IdleTicks
    /\ IdleObs

\* minute_grid(df)
MinuteGrid ==
    /\ pc = "loaded"
    /\ grid' = minute_grid(df)
    /\ pc' = "gridded"
    /\ UNCHANGED <<pipeVars, qcVars, loadVars, runVars, readVars, tickVars, obsVars>>

NextGrid == MinuteGrid

SpecGrid == InitGrid /\ [][NextGrid]_vars

---------------------------------------------------------------------------
(* Inputs of the session mask and the QC filter *)

MaxHoles == 2       \* minutes a QC input may lack

TueEight == MinutesPerDay + 8 * MinutesPerHour      \* Tuesday 08:00 UTC
FriLastHour == SatStart - MinutesPerHour            \* Friday 23:00 UTC

\* The rows of a QC input before its holes: Tuesday 08:00-08:59, Tuesday
\* 08:00-09:59, or Friday 23:00-23:59 with Monday 00:00-00:59
QcWindows ==
    { TueEight..(TueEight + 59),
      TueEight..(TueEight + 119),
      (FriLastHour..(FriLastHour + 59)) \cup (MonStart..(MonStart + 59)) }

\* Where a hole may be, counted from the first row
HoleOffsets == {0, 10, 11, 45, 70}

Sess(zone, sh, sm, eh, em) == [tz |-> zone, start |-> <<sh, sm>>, end |-> <<eh, em>>]

\* The session lists tried
SessionLists ==
    { <<>>,
      <<Sess("UTC", 8, 0, 8, 59)>>,
      <<Sess("UTC", 8, 30, 9, 15)>>,
      <<Sess("EST", 22, 0, 3, 29)>>,
      <<Sess("DST", 8, 30, 10, 15)>>,
      <<Sess("UTC", 8, 30, 9, 15), Sess("EST", 22, 0, 3, 29)>>,
      <<Sess("UTC", 23, 30, 0, 29)>> }

QcRatios == {50, 97, 100}
QcAbs == {0, 30}

InitQC ==
    /\ pc = "loaded"
    /\ \E W \in QcWindows, offs \in SUBSET HoleOffsets, asNaN \in BOOLEAN :
         /\ Cardinality(offs) <= MaxHoles
         /\ asNaN => offs # {}
         /\ LET lo == SetMin(W)
                H == {lo + o : o \in offs} \cap W
            IN  src = IF asNaN
                      THEN [m \in W |-> IF m \in H THEN NaNCloseBar(m) ELSE HistBar(m)]
                      ELSE [m \in W \ H |-> HistBar(m)]
    /\ df = src
    /\ prev = EmptySeries
    /\ gaps = <<>>
    /\ impute_max = 0
    /\ dukascopy_max = 0
    /\ archive = NoArchive
    /\ IdleGrid
    /\ sessions \in SessionLists
    /\ min_fill_ratio \in QcRatios
    /\ min_bars_abs \in QcAbs
    /\ in_session = EmptySeries
    /\ ok_by_hour = EmptySeries
    /\ IdleLoad
    /\ IdleRun
    /\ IdleRead
    /\ IdleTicks
    /\ IdleObs

\* cmd_sessions: the mask over the rows of the Series
SessionMask ==
    /\ pc = "loaded"
    /\ in_session' = compute_session_mask(DOMAIN df, sessions)
    /\ pc' = "masked"
    /\ UNCHANGED <<pipeVars, grid, sessions, min_fill_ratio, min_bars_abs, ok_by_hour,
                   loadVars, runVars, readVars, tickVars, obsVars>>

\* prefilter_sessions_qc as cmd_run calls it
Prefilter ==
    /\ pc = "loaded"
    /\ prev' = df
    /\ df' = prefilter_sessions_qc(df, sessions, min_fill_ratio, min_bars_abs)
    /\ ok_by_hour' = IF DOMAIN df = {} THEN EmptySeries
                     ELSE QcOk(Reindex(df, minute_grid(df)), sessions,
                               min_fill_ratio, min_bars_abs)
    /\ pc' = "filtered"
    /\ UNCHANGED <<src, gaps, impute_max, dukascopy_max, archive, grid,
                   sessions, min_fill_ratio, min_bars_abs, in_session,
                   loadVars, runVars, readVars, tickVars, obsVars>>

NextQC == SessionMask \/ Prefilter

SpecQC == InitQC /\ [][NextQC]_vars

---------------------------------------------------------------------------
(* Loading one Series, and loading it again *)

MaxRows == 4        \* rows of a Series that is loaded
MaxChunk == 3       \* largest chunksize tried
MaxLoads == 2       \* loads of the same Series

\* The Series of n complete bars from Monday 00:00
LoadSeries(n) == [m \in MonStart..(MonStart + n - 1) |-> HistBar(m)]

\* The same timestamps after the source data was revised
Revised(d) == [m \in DOMAIN d |-> [d[m] EXCEPT !.close = @ + 1, !.high = @ + 1]]

InitLoad ==
    /\ pc = "idle"
    /\ \E n \in 0..MaxRows : src = LoadSeries(n)
    /\ df = src
    /\ prev = EmptySeries
    /\ gaps = <<>>
    /\ impute_max = 0
    /\ dukascopy_max = 0
    /\ archive = NoArchive
    /\ IdleGrid
    /\ IdleQC
    /\ store = EmptyTable
    /\ symbol \in {"EURUSD", "GBPUSD"}
    /\ chunksize \in 1..MaxChunk
    /\ row_i = 0
    /\ copies = 0
    /\ loads = 0
    /\ IdleRun
    /\ IdleRead
    /\ IdleTicks
    /\ IdleObs

\* cmd_to_pg: to_postgres_copy up to its loop (connect, CREATE TABLE IF NOT
\* EXISTS, n = len(df), i = 0); a later load is of the same or a revised Series
StartLoad ==
    /\ pc \in {"idle", "load_done", "load_raised"}
    /\ loads < MaxLoads
    /\ loads' = loads + 1
    /\ row_i' = 0
    /\ copies' = 0
    /\ prev' = df
    /\ df' \in (IF loads = 0 THEN {df} ELSE {df, Revised(df)})
    /\ emitted' = <<>>
    /\ pc' = "copying"
    /\ UNCHANGED <<src, gaps, impute_max, dukascopy_max, archive, grid, qcVars,
                   store, symbol, chunksize, runVars, readVars, tickVars, requested>>

\* One pass of the while loop: the batch, copy_from, i += len(batch); an
\* error of copy_from leaves to_postgres_copy as an exception
CopyChunk ==
    /\ pc = "copying"
    /\ row_i < Cardinality(DOMAIN df)
    /\ LET stamps == BatchStamps(df, row_i, chunksize)
           res == copy_from(store, symbol, df, stamps)
       IN  /\ store' = res.table
           /\ copies' = copies + 1
           /\ row_i' = IF res.raised = "no" THEN row_i + Len(stamps) ELSE row_i
           /\ emitted' = Append(emitted, stamps)
           /\ pc' = IF res.raised = "no" THEN "copying" ELSE "load_raised"
    /\ UNCHANGED <<pipeVars, grid, qcVars, symbol, chunksize, loads, runVars,
                   readVars, tickVars, requested>>

\* The loop ends (i >= n): cur.close(), conn.close()
FinishLoad ==
    /\ pc = "copying"
    /\ row_i >= Cardinality(DOMAIN df)
    /\ pc' = "load_done"
    /\ UNCHANGED <<pipeVars, grid, qcVars, loadVars, runVars, readVars, tickVars, obsVars>>

NextLoad == StartLoad \/ CopyChunk \/ FinishLoad

SpecLoad == InitLoad /\ [][NextLoad]_vars

---------------------------------------------------------------------------
(* The batch run over the symbols of a configuration *)

NumSymbols == 3     \* symbols of a configuration

SymbolNames == [j \in 1..(NumSymbols + 1) |-> <<"SYM", j>>]

\* What a symbol's input_globs lead to: no file matched, a file that
\* read_histdata_csv cannot read or parse, files with rows, or files with
\* rows and a prefilter without sessions (which keeps no row)
SymbolKinds == {"nofiles", "unreadable", "rows", "rows_prefilter"}

\* The rows of every symbol that has rows: Monday 00:00 and 00:02
RunSeries == [m \in {MonStart, MonStart + 2} |-> HistBar(m)]

InitRun ==
    /\ pc = "run"
    /\ src = RunSeries
    /\ df = EmptySeries
    /\ prev = EmptySeries
    /\ gaps = <<>>
    /\ impute_max = 5
    /\ dukascopy_max = 60
    /\ archive = NoArchive
    /\ IdleGrid
    /\ sessions = <<>>
    /\ min_fill_ratio = 97
    /\ min_bars_abs = 0
    /\ in_session = EmptySeries
    /\ ok_by_hour = EmptySeries
    /\ store = EmptyTable
    /\ symbol = "EURUSD"
    /\ chunksize \in 1..MaxChunk
    /\ row_i = 0
    /\ copies = 0
    /\ loads = 0
    /\ cfg \in [1..NumSymbols -> SymbolKinds]
    /\ sym_i = 0
    /\ visited = {}
    /\ failed = {}
    /\ IdleRead
    /\ IdleTicks
    /\ IdleObs

\* One iteration of the loop of cmd_run over cfg["symbols"]; nothing in it
\* is inside a try, so what a stage raises leaves cmd_run
RunSymbol ==
    /\ pc = "run"
    /\ sym_i < Len(cfg)
    /\ LET j == sym_i + 1
           d1 == impute_small_gaps(src, impute_max)
           d2 == apply_dukascopy_backfill(d1, archive, dukascopy_max)
           d3 == IF cfg[j] = "rows_prefilter"
                 THEN prefilter_sessions_qc(d2, sessions, min_fill_ratio, min_bars_abs)
                 ELSE d2
           res == to_postgres_copy(store, SymbolNames[j], d3, chunksize)
           raises == \/ cfg[j] = "unreadable"
                     \/ cfg[j] \in {"rows", "rows_prefilter"} /\ res.raised # "no"
       IN  /\ visited' = visited \cup {j}
           /\ failed' = IF raises THEN failed \cup {j} ELSE failed
           /\ pc' = IF raises THEN "run_aborted" ELSE "run"
           /\ sym_i' = IF raises THEN sym_i ELSE j
           /\ df' = IF cfg[j] \in {"rows", "rows_prefilter"} THEN d3 ELSE df
           /\ store' = IF cfg[j] \in {"rows", "rows_prefilter"} THEN res.table ELSE store
           /\ requested' = IF cfg[j] \in {"rows", "rows_prefilter"}
                            THEN RequestedHours(d1, dukascopy_max) ELSE requested
           /\ emitted' = IF cfg[j] \in {"rows", "rows_prefilter"}
                          THEN [c \in 1..res.copies |->
                                   BatchStamps(d3, (c - 1) * chunksize, chunksize)]
                          ELSE emitted
    /\ UNCHANGED <<src, prev, gaps, impute_max, dukascopy_max, archive, grid, qcVars,
                   symbol, chunksize, row_i, copies, loads, cfg,
                   readVars, tickVars>>

\* The loop has run over every symbol
FinishRun ==
    /\ pc = "run"
    /\ sym_i = Len(cfg)
    /\ pc' = "run_finished"
    /\ UNCHANGED <<pipeVars, grid, qcVars, loadVars, runVars, readVars, tickVars, obsVars>>

NextRun == RunSymbol \/ FinishRun

SpecRun == InitRun /\ [][NextRun]_vars

---------------------------------------------------------------------------
(* Decoding and aggregating the ticks of the hours of one window *)

MaxTicks == 3       \* ticks of the body the archive serves

\* The words of one tick: the millisecond within the hour, ask, bid,
\* ask volume, bid volume
TickMs == {0, 59999, 60000, 3599999}
TickBids == {1, 2}
TickChoice == {<<ms, bid + 1, bid, 1, 1 + (ms % 2)>> : ms \in TickMs, bid \in TickBids}

\* The ticks of an archive hour are in time order
TickSeqs ==
    UNION {{q \in [1..n -> TickChoice] : \A a \in 1..(n - 1) : q[a][1] <= q[a + 1][1]} :
              n \in 0..MaxTicks}

RECURSIVE FlattenWords(_)
FlattenWords(q) == IF q = <<>> THEN <<>> ELSE Head(q) \o FlattenWords(Tail(q))

\* The bodies an hour can answer with: none, one that does not
\* decompress, and payloads of whole ticks followed by nothing, by one more
\* word, by two more bytes or by both
BadLzma == [lzma_ok |-> FALSE, words |-> <<>>, extra |-> 0, body |-> TRUE]
ServedBlobs ==
    {NoBlob, BadLzma} \cup
    {[lzma_ok |-> TRUE, words |-> FlattenWords(q) \o tail, extra |-> e, body |-> TRUE] :
        q \in TickSeqs, tail \in {<<>>, <<7>>}, e \in {0, 2}}

\* The window of the call: from Tuesday 08:00, one hour or two
TickHours == {TueEight, TueEight + MinutesPerHour}

InitTicks ==
    /\ pc = "ticks_fetch"
    /\ src = EmptySeries
    /\ df = EmptySeries
    /\ prev = EmptySeries
    /\ gaps = <<>>
    /\ impute_max = 0
    /\ dukascopy_max = 0
    /\ archive \in [TickHours -> {"none", "raw"}]
    /\ archive[TueEight] = "raw"
    /\ IdleGrid
    /\ IdleQC
    /\ IdleLoad
    /\ IdleRun
    /\ IdleRead
    /\ served \in ServedBlobs
    /\ win \in {<<TueEight, TueEight + MinutesPerHour - 1>>,
                <<TueEight, TueEight + MinutesPerHour>>}
    /\ blob = NoBlob
    /\ hour_ticks = <<>>
    /\ hour_bars = EmptySeries
    /\ hour_i = 0
    /\ attempts = 0
    /\ responses = <<>>
    /\ IdleObs

\* A direct call of parse_bi5_to_ticks on the served body
ParseBlob ==
    /\ pc = "ticks_fetch"
    /\ hour_i = 0
    /\ blob' = served
    /\ hour_ticks' = parse_bi5_to_ticks(served)
    /\ pc' = IF parse_bi5_raises(served) THEN "ticks_raised" ELSE "parsed_direct"
    /\ UNCHANGED <<pipeVars, grid, qcVars, loadVars, runVars, readVars,
                   served, win, hour_bars, hour_i, attempts, responses, obsVars>>

\* dukascopy_m1, one pass of the loop: hdt and raw = fetch_bi5(symbol, hdt)
FetchHour ==
    /\ pc = "ticks_fetch"
    /\ hour_i < Len(dukascopy_hours(win[1], win[2]))
    /\ blob' = fetch_bi5(archive, dukascopy_hours(win[1], win[2])[hour_i + 1])
    /\ hour_ticks' = <<>>
    /\ pc' = "ticks_fetched"
    /\ UNCHANGED <<pipeVars, grid, qcVars, loadVars, runVars, readVars,
                   served, win, hour_bars, hour_i, attempts, responses, obsVars>>

\* if not raw: continue; ticks = parse_bi5_to_ticks(raw, hdt)
ParseHour ==
    /\ pc = "ticks_fetched"
    /\ IF ~blob.body
       THEN /\ hour_i' = hour_i + 1
            /\ pc' = "ticks_fetch"
            /\ UNCHANGED hour_ticks
       ELSE /\ hour_ticks' = parse_bi5_to_ticks(blob)
            /\ pc' = IF parse_bi5_raises(blob) THEN "ticks_raised" ELSE "ticks_parsed"
            /\ UNCHANGED hour_i
    /\ UNCHANGED <<pipeVars, grid, qcVars, loadVars, runVars, readVars,
                   served, win, blob, hour_bars, attempts, responses, obsVars>>

\* if ticks.empty: continue; the resample of the hour, appended to dfs
ResampleHour ==
    /\ pc = "ticks_parsed"
    /\ hour_bars' = IF hour_ticks = <<>> THEN hour_bars
                    ELSE ConcatBars(hour_bars,
                             ResampleM1(dukascopy_hours(win[1], win[2])[hour_i + 1],
                                        hour_ticks))
    /\ hour_i' = hour_i + 1
    /\ pc' = "ticks_fetch"
    /\ UNCHANGED <<pipeVars, grid, qcVars, loadVars, runVars, readVars,
                   served, win, blob, hour_ticks, attempts, responses, obsVars>>

\* The loop is over: concat, sort_index, drop duplicates, return
FinishTicks ==
    /\ pc = "ticks_fetch"
    /\ hour_i = Len(dukascopy_hours(win[1], win[2]))
    /\ pc' = "ticks_done"
    /\ UNCHANGED <<pipeVars, grid, qcVars, loadVars, runVars, readVars, tickVars, obsVars>>

NextTicks == ParseBlob \/ FetchHour \/ ParseHour \/ ResampleHour \/ FinishTicks

SpecTicks == InitTicks /\ [][NextTicks]_vars

---------------------------------------------------------------------------
(* The GETs of fetch_bi5 for one hour *)

Retries == 2        \* fetch_bi5(..., retries=2)

\* range(retries + 1) changed so that it has one more pass
fetch_range_extra(retries) == retries + 2

\* for _ in range(retries + 1): the passes of the loop
fetch_range(retries) == retries + 1

\* What one requests.get does: answer 200 with a body, answer 200 with an
\* empty body, answer another status, or raise requests.RequestException
GetOutcomes == {"ok", "empty", "non200", "exception"}

\* The bodies the hour can hold in this specification
FetchBodies ==
    {BadLzma,
     [lzma_ok |-> TRUE, words |-> <<0, 2, 1, 1, 1>>, extra |-> 0, body |-> TRUE],
     [lzma_ok |-> TRUE, words |-> <<0, 2, 1, 1, 1, 7>>, extra |-> 0, body |-> TRUE]}

InitFetch ==
    /\ pc = "fetch_loop"
    /\ src = EmptySeries
    /\ df = EmptySeries
    /\ prev = EmptySeries
    /\ gaps = <<>>
    /\ impute_max = 0
    /\ dukascopy_max = 0
    /\ archive = [h \in {TueEight} |-> "raw"]
    /\ IdleGrid
    /\ IdleQC
    /\ IdleLoad
    /\ IdleRun
    /\ IdleRead
    /\ served \in FetchBodies
    /\ win = <<TueEight, TueEight>>
    /\ blob = NoBlob
    /\ hour_ticks = <<>>
    /\ hour_bars = EmptySeries
    /\ hour_i = 0
    /\ attempts = 0
    /\ responses = <<>>
    /\ IdleObs

\* One pass of the loop: the GET, the return of a non-empty 200 body, or
\* the sleep (0.4 s after an answer, 0.8 s after an exception)
GetAttempt ==
    /\ pc = "fetch_loop"
    /\ attempts < fetch_range(Retries)
    /\ \E o \in GetOutcomes :
          /\ responses' = Append(responses, o)
          /\ attempts' = attempts + 1
          /\ blob' = IF o = "ok" THEN BlobOf(archive[win[1]], win[1]) ELSE blob
          /\ pc' = IF o = "ok" THEN "fetch_returned" ELSE "fetch_loop"
    /\ UNCHANGED <<pipeVars, grid, qcVars, loadVars, runVars, readVars,
                   served, win, hour_ticks, hour_bars, hour_i, obsVars>>

\* The loop is exhausted: return None
GiveUp ==
    /\ pc = "fetch_loop"
    /\ attempts >= fetch_range(Retries)
    /\ blob' = NoBlob
    /\ pc' = "fetch_none"
    /\ UNCHANGED <<pipeVars, grid, qcVars, loadVars, runVars, readVars,
                   served, win, hour_ticks, hour_bars, hour_i, attempts, responses,
                   obsVars>>

NextFetch == GetAttempt \/ GiveUp

SpecFetch == InitFetch /\ [][NextFetch]_vars

---------------------------------------------------------------------------
(* Format Reader: read_histdata_csv and load_histdata_many *)

MaxFileRows == 2    \* rows of an input file

\* The text of a cell that is no timestamp / no number
BadStamp == -2
BadCell == -2

\* A file is the list of its rows; a row holds the text of its six cells,
\* the timestamp as minutes of the file's clock (UTC-5, no daylight saving)
Row(dt, px) == [dt |-> dt, open |-> px, high |-> px, low |-> px, close |-> px, volume |-> 0]
RowChoice ==
    {Row(MonStart, 1), Row(MonStart, 2), Row(MonStart + 1, 1), Row(BadStamp, 1),
     [Row(MonStart, 1) EXCEPT !.close = BadCell]}
FileChoice == UNION {[1..n -> RowChoice] : n \in 0..MaxFileRows}
FileCounts == {0, 1, 2}

\* pd.to_datetime(format="%Y%m%d %H%M%S"), tz_localize("Etc/GMT+5"),
\* tz_convert("UTC"): the UTC minute of a timestamp cell
ParseStamp(dt) == dt + 5 * MinutesPerHour

\* pd.to_numeric(errors="coerce")
ToNumeric(cell) == IF cell = BadCell THEN NaN ELSE cell

\* read_histdata_csv: the frame of the file's rows in file order, or the
\* exception: pd.read_csv raises on a file without rows, pd.to_datetime
\* (errors left at "raise") on a cell that is no timestamp
read_histdata_csv(file) ==
    IF file = <<>> THEN [raised |-> "EmptyDataError", rows |-> <<>>]
    ELSE IF \E r \in DOMAIN file : file[r].dt = BadStamp
    THEN [raised |-> "ValueError", rows |-> <<>>]
    ELSE [raised |-> "no",
          rows |-> [r \in DOMAIN file |->
                      [ts |-> ParseStamp(file[r].dt),
                       bar |-> [open |-> ToNumeric(file[r].open),
                                high |-> ToNumeric(file[r].high),
                                low |-> ToNumeric(file[r].low),
                                close |-> ToNumeric(file[r].close),
                                volume |-> ToNumeric(file[r].volume),
                                source |-> NoSource]]]]

RECURSIVE ConcatFrames(_)
\* pd.concat(dfs): the rows of the frames, in list order
ConcatFrames(dfs) ==
    IF dfs = <<>> THEN <<>> ELSE Head(dfs).rows \o ConcatFrames(Tail(dfs))

\* index.is_monotonic_increasing
IsMonotonic(rows) == \A a \in 1..(Len(rows) - 1) : rows[a].ts <= rows[a + 1].ts

\* sort_index() and ~index.duplicated(keep="last"): the positions of the
\* rows kept, by timestamp.  sort_index returns a monotonic frame as it
\* is; otherwise it sorts with kind="quicksort", which is not stable, so
\* the rows of one timestamp can come out in any order and the last of
\* them is any of them
KeptPositions(rows) ==
    LET stamps == {rows[a].ts : a \in DOMAIN rows}
        last(t) == SetMax({a \in DOMAIN rows : rows[a].ts = t})
    IN  IF IsMonotonic(rows) THEN {[t \in stamps |-> last(t)]}
        ELSE {f \in [stamps -> DOMAIN rows] : \A t \in stamps : rows[f[t]].ts = t}

\* load_histdata_many: the outcomes of one call
load_histdata_many(paths) ==
    LET dfs == [p \in DOMAIN paths |-> read_histdata_csv(paths[p])]
        rows == ConcatFrames(dfs)
    IN  IF \E p \in DOMAIN dfs : dfs[p].raised # "no"
        THEN {[raised |-> TRUE, df |-> EmptySeries]}
        ELSE {[raised |-> FALSE, df |-> [t \in DOMAIN f |-> rows[f[t]].bar]] :
                 f \in KeptPositions(rows)}

InitRead ==
    /\ pc = "read_idle"
    /\ src = EmptySeries
    /\ df = EmptySeries
    /\ prev = EmptySeries
    /\ gaps = <<>>
    /\ impute_max = 0
    /\ dukascopy_max = 0
    /\ archive = NoArchive
    /\ IdleGrid
    /\ IdleQC
    /\ IdleLoad
    /\ IdleRun
    /\ \E n \in FileCounts : files \in [1..n -> FileChoice]
    /\ IdleTicks
    /\ IdleObs

\* A call of load_histdata_many on the files
LoadMany ==
    /\ pc = "read_idle"
    /\ \E res \in load_histdata_many(files) :
          /\ df' = res.df
          /\ pc' = IF res.raised THEN "read_raised" ELSE "read_done"
    /\ UNCHANGED <<src, prev, gaps, impute_max, dukascopy_max, archive, grid, qcVars,
                   loadVars, runVars, readVars, tickVars, obsVars>>

NextRead == LoadMany

SpecRead == InitRead /\ [][NextRead]_vars

---------------------------------------------------------------------------
(* Impute and backfill around an hour boundary *)

FillSpan == 3       \* minutes on each side of Tuesday 08:00

\* Bars from FillSpan minutes before 08:00 to FillSpan minutes after it,
\* the first and the last present, the others present or absent
FillStamps == (TueEight - FillSpan)..(TueEight + FillSpan)
FillSeries ==
    {[m \in keep |-> HistBar(m)] :
        keep \in {k \in SUBSET FillStamps : {TueEight - FillSpan, TueEight + FillSpan} \subseteq k}}

InitFill ==
    /\ pc = "loaded"
    /\ src \in FillSeries
    /\ df = src
    /\ prev = EmptySeries
    /\ gaps = <<>>
    /\ impute_max \in {0, 1}
    /\ dukascopy_max \in {1, 2}
    /\ archive \in [{TueEight - MinutesPerHour, TueEight} -> {"none", "full", "odd"}]
    /\ IdleGrid
    /\ IdleQC
    /\ IdleLoad
    /\ IdleRun
    /\ IdleRead
    /\ IdleTicks
    /\ IdleObs

NextFill == Impute \/ Backfill

SpecFill == InitFill /\ [][NextFill]_vars

---------------------------------------------------------------------------
(* Claims *)

DayOf(d) == SetMin(DOMAIN d) \div MinutesPerDay

\* The flat bar the imputer writes from close c
FlatBar(c) == [open |-> c, high |-> c, low |-> c, close |-> c,
               volume |-> 0, source |-> "imputed"]

\* The rows the table holds for a symbol
StoredRows(sym) == {key[2] : key \in {x \in DOMAIN store : x[1] = sym}}

\* C1 (as stated): running to_postgres_copy a second time for the same
\* symbol completes without error and leaves the table with exactly one
\* row per (symbol, timestamp) of the Series, holding the values of the
\* latest load.
C1_ReloadIdempotentAsStated ==
    (loads = 2 /\ pc \in {"load_done", "load_raised"}) =>
        /\ pc = "load_done"
        /\ StoredRows(symbol) = DOMAIN df
        /\ \A m \in DOMAIN df :
               /\ store[<<symbol, m>>].close = df[m].close
               /\ store[<<symbol, m>>].high = df[m].high

\* C2 (as stated): in cmd_run a failure while processing one symbol is
\* caught, and every symbol after it in the configuration is still
\* processed.
C2_BatchContinuesAsStated ==
    pc \in {"run_finished", "run_aborted"} =>
        \A f \in failed : \A j \in (f + 1)..Len(cfg) : j \in visited

\* C3 (as stated): in the one-day scenario with thresholds 5 and 120, after
\* impute_small_gaps and apply_dukascopy_backfill the 3-minute gap is
\* flat-filled and tagged imputed, and the 91-minute gap is backfilled in
\* all its 91 minutes when the archive holds ticks for every minute of the
\* window, and stays missing in all 91 when the archive has no data.
C3_EndToEndAsStated ==
    pc = "backfilled" =>
        LET day == DayOf(src)
            last == src[day * MinutesPerDay + GapAStart - 1].close
        IN  /\ \A m \in DayGapA(day) : df[m] = FlatBar(last)
            /\ (DOMAIN archive = DayGapHours(day)) =>
                   \A m \in DayGapB(day) :
                       df[m].close # NaN /\ df[m].source = "dukascopy"
            /\ (DOMAIN archive = {}) =>
                   \A m \in DayGapB(day) : df[m].close = NaN

\* What the code does in the scenario: only the hours 13:00 and 14:00 are
\* fetched, so 14:00..14:59 are backfilled and 15:00..15:30 stay missing
C3_CodeBehaviour ==
    pc = "backfilled" =>
        LET day == DayOf(src)
        IN  (DOMAIN archive = DayGapHours(day)) =>
                \A m \in DayGapB(day) :
                    (df[m].close # NaN) <=> (m < day * MinutesPerDay + 15 * MinutesPerHour)

---------------------------------------------------------------------------
(* Gap runs stated from the data, for the claims about the gap stages *)

\* Monday to Friday, by the minute of the week
IsWeekdayMinute(m) == (m % (7 * 1440)) < 5 * 1440

\* The timestamps of S with a non-missing close
Observed(S) == {m \in DOMAIN S : S[m].close # NaN}

\* The weekday minutes between the first and the last observed close of S
\* that have no observed close
MissingMinutes(S) ==
    IF Observed(S) = {} THEN {}
    ELSE {m \in SetMin(Observed(S))..SetMax(Observed(S)) :
             IsWeekdayMinute(m) /\ m \notin Observed(S)}

\* The first and last minute of the maximal run of missing minutes around m
RunFirst(miss, m) == SetMin({a \in miss : a <= m /\ \A k \in a..m : k \in miss})
RunLast(miss, m) == SetMax({b \in miss : b >= m /\ \A k \in m..b : k \in miss})
RunLength(miss, m) == RunLast(miss, m) - RunFirst(miss, m) + 1

\* The last observed close of S before minute m
LastCloseBefore(S, m) == S[SetMax({k \in Observed(S) : k < m})].close

HasWeekendRow(S) == \E m \in DOMAIN S : ~IsWeekdayMinute(m)

\* C4 (as stated): after impute_small_gaps(S, max_gap_min) every minute of
\* every gap run of S of length <= max_gap_min has close = the last
\* non-missing close of S before the run, open = high = low = close,
\* volume = 0 and source = imputed.
C4_FlatFillAsStated ==
    pc = "imputed" =>
        LET miss == MissingMinutes(src)
        IN  \A m \in miss :
                RunLength(miss, m) <= impute_max =>
                    /\ m \in DOMAIN df
                    /\ df[m] = FlatBar(LastCloseBefore(src, RunFirst(miss, m)))

\* C4 holds on every Series that has no Saturday or Sunday row
C4_FlatFillNoWeekendRows ==
    (pc = "imputed" /\ ~HasWeekendRow(src)) =>
        LET miss == MissingMinutes(src)
        IN  \A m \in miss :
                RunLength(miss, m) <= impute_max =>
                    /\ m \in DOMAIN df
                    /\ df[m] = FlatBar(LastCloseBefore(src, RunFirst(miss, m)))

\* C5 (as stated): impute_small_gaps applied twice gives, row for row, the
\* result of applying it once, and the result has no missing close inside
\* any gap run of length <= t.
C5_IdempotentAsStated ==
    pc = "imputed2" =>
        /\ df = prev
        /\ LET miss == MissingMinutes(src)
           IN  \A m \in miss :
                   RunLength(miss, m) <= impute_max =>
                       m \in DOMAIN df /\ df[m].close # NaN

\* The first half of C5: the second application changes nothing
C5_SecondPassChangesNothing ==
    pc = "imputed2" => df = prev

\* C7: gap_report returns runs sorted by start, non-overlapping and maximal,
\* each len_min the count of missing grid minutes the run covers, their
\* union the grid minus the observed timestamps; an empty Series or one
\* with no missing minute gives the empty list.
C7_GapRunsMaximal ==
    pc = "reported" =>
        LET miss == MissingMinutes(src)
            cover(i) == gaps[i].start..(gaps[i].start + gaps[i].len_min - 1)
        IN  /\ \A i \in 1..(Len(gaps) - 1) :
                   gaps[i].start + gaps[i].len_min < gaps[i + 1].start
            /\ \A i \in 1..Len(gaps) :
                   /\ gaps[i].len_min >= 1
                   /\ cover(i) \subseteq miss
            /\ UNION {cover(i) : i \in 1..Len(gaps)} = miss
            /\ (miss = {}) => gaps = <<>>

\* A report with a run of two minutes and a second run
C7_Witness ==
    /\ pc = "reported"
    /\ Len(gaps) >= 2
    /\ \E i \in 1..Len(gaps) : gaps[i].len_min >= 2

\* C6: the grid of a range holds exactly the minutes from the range start
\* to the range end inclusive that fall on Monday to Friday UTC: no
\* Saturday or Sunday minute, no weekday minute of the range left out,
\* 5*1440 minutes for a range of 7 whole days, nothing for an empty input.
C6_GridIsWeekdayMinutes ==
    pc = "gridded" =>
        IF DOMAIN src = {} THEN grid = {}
        ELSE LET lo == SetMin(DOMAIN src)
                 hi == SetMax(DOMAIN src)
             IN  /\ \A m \in grid : lo <= m /\ m <= hi /\ IsWeekdayMinute(m)
                 /\ \A m \in lo..hi : IsWeekdayMinute(m) => m \in grid
                 /\ (hi - lo + 1 = 7 * 1440) => Cardinality(grid) = 5 * 1440

\* The grid of a range of 7 whole days that starts on a Saturday noon
C6_Witness ==
    /\ pc = "gridded"
    /\ DOMAIN src # {}
    /\ SetMin(DOMAIN src) = 5 * 1440 + 720
    /\ SetMax(DOMAIN src) - SetMin(DOMAIN src) + 1 = 7 * 1440
    /\ Cardinality(grid) = 5 * 1440

---------------------------------------------------------------------------
(* Sessions and QC stated from the configuration, for the claims *)

\* Minutes since local midnight of a UTC minute in a zone
MinuteOfLocalDay(zone, ts) == (ts + UtcOffset(zone, ts)) % 1440

\* The UTC minute lies in the window of at least one configured session
InSessionStated(ts) ==
    \E i \in 1..Len(sessions) :
        LET m == MinuteOfLocalDay(sessions[i].tz, ts)
            a == 60 * sessions[i].start[1] + sessions[i].start[2]
            b == 60 * sessions[i].end[1] + sessions[i].end[2]
        IN  \/ b >= a /\ a <= m /\ m <= b
            \/ b < a /\ (m >= a \/ m <= b)

\* The weekday minutes of the range of a Series
GridStated(S) ==
    IF DOMAIN S = {} THEN {}
    ELSE {m \in SetMin(DOMAIN S)..SetMax(DOMAIN S) : IsWeekdayMinute(m)}

SameHour(m, h) == m \div 60 = h \div 60

\* In-session grid minutes of the hour, and those with a close in S
ExpectedStated(S, h) ==
    Cardinality({m \in GridStated(S) : SameHour(m, h) /\ InSessionStated(m)})
ObservedStated(S, h) ==
    Cardinality({m \in GridStated(S) \cap DOMAIN S :
                    SameHour(m, h) /\ InSessionStated(m) /\ S[m].close # NaN})

\* ceil(e * pct / 100): the least n with 100 n >= e pct
CeilStated(e, pct) == CHOOSE n \in 0..e : 100 * n >= e * pct /\ 100 * (n - 1) < e * pct

\* C8: prefilter_sessions_qc keeps a UTC hour iff observed >=
\* max(ceil(expected * min_fill_ratio), min_bars_abs); with expected = 60,
\* ratio 0.97 and min_bars_abs = 0 an hour with 58 observed minutes is
\* dropped and one with 59 is kept.
C8_HourKeptIffThreshold ==
    pc = "filtered" =>
        \A h \in {HourFloor(m) : m \in GridStated(prev)} :
            LET e == ExpectedStated(prev, h)
                o == ObservedStated(prev, h)
                t == CeilStated(e, min_fill_ratio)
            IN  /\ h \in DOMAIN ok_by_hour
                /\ ok_by_hour[h] <=> (o >= t /\ o >= min_bars_abs)
                /\ (e = 60 /\ min_fill_ratio = 97 /\ min_bars_abs = 0) =>
                       /\ o = 58 => ~ok_by_hour[h]
                       /\ o = 59 => ok_by_hour[h]

\* An hour with 60 expected and 58 observed minutes dropped at ratio 0.97
C8_Witness ==
    /\ pc = "filtered"
    /\ min_fill_ratio = 97
    /\ min_bars_abs = 0
    /\ \E h \in DOMAIN ok_by_hour :
           /\ ExpectedStated(prev, h) = 60
           /\ ObservedStated(prev, h) = 58
           /\ ~ok_by_hour[h]

\* The same hour with 59 observed minutes kept
C8_Witness59 ==
    /\ pc = "filtered"
    /\ min_fill_ratio = 97
    /\ min_bars_abs = 0
    /\ \E h \in DOMAIN ok_by_hour :
           /\ ExpectedStated(prev, h) = 60
           /\ ObservedStated(prev, h) = 59
           /\ ok_by_hour[h]

\* C9: the output of prefilter_sessions_qc is exactly the grid minutes
\* that are in-session and lie in a kept hour, each with the values it had:
\* no minute of a dropped hour, no out-of-session minute of any hour.
C9_OutputIsInSessionKept ==
    pc = "filtered" =>
        /\ DOMAIN df = {m \in GridStated(prev) :
                           InSessionStated(m) /\ ok_by_hour[HourFloor(m)]}
        /\ \A m \in DOMAIN df :
               df[m] = IF m \in DOMAIN prev THEN prev[m] ELSE NaNBar

\* An output with a kept row, next to an out-of-session minute of a kept
\* hour and an in-session minute of a dropped hour, both discarded
C9_Witness ==
    /\ pc = "filtered"
    /\ DOMAIN df # {}
    /\ \E m \in GridStated(prev) :
           ok_by_hour[HourFloor(m)] /\ ~InSessionStated(m) /\ m \notin DOMAIN df
    /\ \E m \in GridStated(prev) :
           ~ok_by_hour[HourFloor(m)] /\ InSessionStated(m) /\ m \notin DOMAIN df

\* C10: compute_session_mask marks a UTC minute in-session iff, for at
\* least one configured session, its local minute of the day m has
\* start <= m <= end (end >= start) or m >= start or m <= end (end < start);
\* both bounds inclusive; no session, no minute in-session.
C10_MaskIsUnionOfWindows ==
    pc = "masked" =>
        /\ DOMAIN in_session = DOMAIN src
        /\ \A ts \in DOMAIN src : in_session[ts] <=> InSessionStated(ts)
        /\ (sessions = <<>>) => \A ts \in DOMAIN src : ~in_session[ts]

\* Two sessions, one of them wrapping midnight, some minute in-session at
\* the very end of a window and some minute out of session
C10_Witness ==
    /\ pc = "masked"
    /\ Len(sessions) = 2
    /\ \E i \in 1..2 : 60 * sessions[i].end[1] + sessions[i].end[2]
                          < 60 * sessions[i].start[1] + sessions[i].start[2]
    /\ \E ts \in DOMAIN in_session :
           /\ in_session[ts]
           /\ \E i \in 1..2 : MinuteOfLocalDay(sessions[i].tz, ts)
                                 = 60 * sessions[i].end[1] + sessions[i].end[2]
    /\ \E ts \in DOMAIN in_session : ~in_session[ts]


\* The body is one the claim calls bad: empty, failing decompression, or a
\* payload whose byte length is no multiple of 20
BadBlob(raw) ==
    \/ ~raw.body
    \/ ~raw.lzma_ok
    \/ (4 * Len(raw.words) + raw.extra) % 20 # 0

\* C11: parse_bi5_to_ticks never raises; an empty blob, a blob that fails
\* decompression and a payload whose length is no multiple of 20 yield no
\* tick, and a payload of 20 * k bytes yields exactly k ticks.
C11_ParseNeverRaises ==
    /\ pc # "ticks_raised"
    /\ pc \in {"parsed_direct", "ticks_parsed"} =>
          IF BadBlob(blob) THEN hour_ticks = <<>>
          ELSE 20 * Len(hour_ticks) = 4 * Len(blob.words) + blob.extra

\* C11 witness: a payload of 22 bytes or more, no multiple of 20, was parsed
C11_Witness ==
    /\ pc = "parsed_direct"
    /\ blob.body /\ blob.lzma_ok
    /\ (4 * Len(blob.words) + blob.extra) % 20 # 0
    /\ Len(blob.words) >= 5

\* C11 witness: a payload of 40 bytes was parsed into two ticks
C11_WitnessTicks ==
    /\ pc = "ticks_parsed"
    /\ ~BadBlob(blob)
    /\ Len(hour_ticks) = 2


\* The ticks of a body as the format lays them out: records of five words
\* (ms, ask, bid, ask volume, bid volume), none for a bad body
StatedTicks(raw) ==
    IF BadBlob(raw) THEN <<>>
    ELSE [r \in 1..(Len(raw.words) \div 5) |->
            [ms |-> raw.words[5 * r - 4], bid |-> raw.words[5 * r - 2],
             bid_vol |-> raw.words[5 * r]]]

\* The hours that overlap the window of the call, and the positions in the
\* served body of the ticks that fall into minute m
WindowHours == {(x \div 60) * 60 : x \in win[1]..win[2]}
TicksOfMinute(m) ==
    LET h == (m \div 60) * 60
    IN  IF h \in WindowHours /\ archive[h] = "raw"
        THEN {r \in DOMAIN StatedTicks(served) :
                 h + (StatedTicks(served)[r].ms \div 60000) = m}
        ELSE {}

RECURSIVE StatedVolume(_)
StatedVolume(idx) ==
    IF idx = {} THEN 0
    ELSE LET r == CHOOSE x \in idx : TRUE
         IN  StatedTicks(served)[r].bid_vol + StatedVolume(idx \ {r})

\* C18: dukascopy_m1 returns, for every UTC minute with at least one tick,
\* one bar with open = first bid, high = max bid, low = min bid, close =
\* last bid and volume = sum of the bid volumes of the minute's ticks, so
\* low <= open, close <= high; it returns no bar for a minute without
\* ticks, and the bars of all hours are one per timestamp.
C18_TickBars ==
    pc = "ticks_done" =>
        /\ DOMAIN hour_bars \subseteq (TueEight - 60)..(TueEight + 179)
        /\ \A m \in (TueEight - 60)..(TueEight + 179) :
              LET idx == TicksOfMinute(m)
                  t == StatedTicks(served)
              IN  IF idx = {} THEN m \notin DOMAIN hour_bars
                  ELSE /\ m \in DOMAIN hour_bars
                       /\ hour_bars[m].open = t[SetMin(idx)].bid
                       /\ hour_bars[m].close = t[SetMax(idx)].bid
                       /\ \A r \in idx : /\ hour_bars[m].low <= t[r].bid
                                         /\ t[r].bid <= hour_bars[m].high
                       /\ \E r \in idx : hour_bars[m].low = t[r].bid
                       /\ \E r \in idx : hour_bars[m].high = t[r].bid
                       /\ hour_bars[m].volume = StatedVolume(idx)
                       /\ hour_bars[m].low <= hour_bars[m].open
                       /\ hour_bars[m].open <= hour_bars[m].high
                       /\ hour_bars[m].low <= hour_bars[m].close
                       /\ hour_bars[m].close <= hour_bars[m].high

\* C18 witness: two hours were aggregated; a minute had two ticks with
\* different bids, the minute after it had a tick and the one after that
\* had none
C18_Witness ==
    /\ pc = "ticks_done"
    /\ hour_i = 2
    /\ {TueEight, TueEight + 1, TueEight + 60, TueEight + 61} \subseteq DOMAIN hour_bars
    /\ TueEight + 2 \notin DOMAIN hour_bars
    /\ hour_bars[TueEight].open # hour_bars[TueEight].close


\* C12: fetch_bi5 makes at most 3 GETs for one hour, returns the body at
\* the first GET that answers 200 with a non-empty body without another
\* GET, and after 3 failed GETs (non-200, empty body or exception, in any
\* mix) returns no data.
C12_BoundedAttempts ==
    /\ attempts <= 3
    /\ Len(responses) = attempts
    /\ \A a \in 1..(attempts - 1) : responses[a] # "ok"
    /\ pc = "fetch_loop" => (attempts >= 1 => responses[attempts] # "ok")
    /\ pc = "fetch_returned" => responses[attempts] = "ok" /\ blob = served
    /\ pc = "fetch_none" =>
          /\ attempts = 3
          /\ responses[3] # "ok"
          /\ ~blob.body
    /\ pc \in {"fetch_loop", "fetch_returned", "fetch_none"}

\* C12 witness: three GETs failed in three different ways and fetch_bi5
\* returned no data
C12_Witness ==
    /\ pc = "fetch_none"
    /\ attempts = 3
    /\ {responses[a] : a \in 1..3} = {"empty", "non200", "exception"}

\* C12 witness: the third GET answered with a body after two failures
C12_WitnessThird ==
    /\ pc = "fetch_returned"
    /\ attempts = 3
    /\ blob.body


\* The rows of all files in input order (earlier file first, earlier line
\* first), as <<file, line>>, and the UTC minute the row is stamped with
InputRows == UNION {{<<p, r>> : r \in DOMAIN files[p]} : p \in DOMAIN files}
SeenBefore(x, y) == x[1] < y[1] \/ (x[1] = y[1] /\ x[2] < y[2])
StampOf(x) == files[x[1]][x[2]].dt + 300
LastSeen(t) ==
    CHOOSE x \in InputRows :
        /\ StampOf(x) = t
        /\ \A y \in InputRows : StampOf(y) = t /\ y # x => SeenBefore(y, x)

\* C13 (as stated): load_histdata_many returns one row per timestamp of
\* the input, and where a timestamp occurs in several rows the row kept is
\* the one seen last in input order.
C13_KeepsLastSeenAsStated ==
    pc = "read_done" =>
        /\ DOMAIN df = {StampOf(x) : x \in InputRows}
        /\ \A t \in DOMAIN df :
              LET cell == files[LastSeen(t)[1]][LastSeen(t)[2]].close
              IN  df[t].close = IF cell = BadCell THEN NaN ELSE cell

\* C13 (what the code guarantees): one row per timestamp of the input, the
\* row kept being one of the rows of that timestamp, and the last seen one
\* when the concatenated rows are already in time order.
C13_KeepsSomeRow ==
    pc = "read_done" =>
        /\ DOMAIN df = {StampOf(x) : x \in InputRows}
        /\ \A t \in DOMAIN df :
              \E x \in InputRows :
                 /\ StampOf(x) = t
                 /\ df[t].close = ToNumeric(files[x[1]][x[2]].close)
                 /\ (\A y, z \in InputRows : SeenBefore(y, z) => StampOf(y) <= StampOf(z))
                       => x = LastSeen(t)


\* The rows whose timestamp cell is a timestamp
StampedRows == {x \in InputRows : files[x[1]][x[2]].dt # BadStamp}

\* C14 (as stated): a row whose timestamp cannot be parsed is dropped and
\* all other rows of the file are returned; a row with an unparsable
\* number is kept with that field missing; the read fails only when no row
\* at all of a file is parseable.
C14_BadRowsDroppedAsStated ==
    pc \in {"read_done", "read_raised"} =>
        /\ pc = "read_raised" =>
              \E p \in DOMAIN files : \A x \in StampedRows : x[1] # p
        /\ pc = "read_done" =>
              /\ DOMAIN df = {StampOf(x) : x \in StampedRows}
              /\ \A x \in StampedRows :
                    (\A y \in StampedRows : StampOf(y) = StampOf(x) => y = x)
                    /\ files[x[1]][x[2]].close = BadCell
                       => df[StampOf(x)].close = NaN /\ df[StampOf(x)].open # NaN

\* C14 (what the code does): the read fails when a file has no row or has
\* a row whose timestamp cannot be parsed, and only then; a row with an
\* unparsable number is kept with that field missing.
C14_AnyBadStampRaises ==
    pc \in {"read_done", "read_raised"} =>
        /\ pc = "read_raised" <=>
              \E p \in DOMAIN files :
                 \/ files[p] = <<>>
                 \/ \E r \in DOMAIN files[p] : files[p][r].dt = BadStamp
        /\ pc = "read_done" =>
              /\ DOMAIN df = {StampOf(x) : x \in StampedRows}
              /\ \A x \in StampedRows :
                    (\A y \in StampedRows : StampOf(y) = StampOf(x) => y = x)
                    /\ files[x[1]][x[2]].close = BadCell
                       => df[StampOf(x)].close = NaN /\ df[StampOf(x)].open # NaN


\* The row of S at a grid minute, a missing row when S has none
RowAt(S, m) ==
    IF m \in DOMAIN S THEN S[m]
    ELSE [open |-> NaN, high |-> NaN, low |-> NaN, close |-> NaN,
          volume |-> NaN, source |-> "none"]

\* The weekday minutes between the first and the last row of S whose close
\* is missing: the missing minutes apply_dukascopy_backfill(S) starts from
MissingOnEntry(S) ==
    IF DOMAIN S = {} THEN {}
    ELSE {m \in SetMin(DOMAIN S)..SetMax(DOMAIN S) :
             IsWeekdayMinute(m) /\ RowAt(S, m).close = NaN}

\* C15 (as stated): for every missing run of length <= threshold
\* apply_dukascopy_backfill requests the archive of every UTC hour that
\* overlaps [run start - 2 min, run end + 2 min], so of every hour that
\* holds a minute of the run.
C15_RequestsEveryHourAsStated ==
    pc = "backfilled" =>
        LET miss == MissingOnEntry(prev)
        IN  \A m \in miss :
                RunLength(miss, m) <= dukascopy_max =>
                    \A x \in (RunFirst(miss, m) - 2)..(RunLast(miss, m) + 2) :
                        (x \div 60) * 60 \in requested

\* C15 (what the code does): from the hour of run start - 2 min it
\* requests one hour per whole hour of the window's duration (run length
\* + 4 minutes) plus one, whichever hours the window overlaps.
C15_RequestsByDuration ==
    pc = "backfilled" =>
        LET miss == MissingOnEntry(prev)
            small == {m \in miss : RunLength(miss, m) <= dukascopy_max}
        IN  requested =
                UNION {{((RunFirst(miss, m) - 2) \div 60) * 60 + 60 * a :
                           a \in 0..((RunLength(miss, m) + 4) \div 60)} : m \in small}


\* The archive holds a tick stamped in minute m: every minute of a "full"
\* hour, the odd minutes of an "odd" hour
ArchiveHasTicks(m) ==
    LET h == (m \div 60) * 60
    IN  /\ h \in DOMAIN archive
        /\ \/ archive[h] = "full"
           \/ archive[h] = "odd" /\ (m - h) % 2 = 1

\* C16: apply_dukascopy_backfill changes a row only if its close was
\* missing on entry, it lies in a missing run of length <= threshold and
\* the archive gave a bar for exactly that minute; every other row is left
\* as it was, so unresolved minutes stay missing.
C16_BackfillFrame ==
    pc = "backfilled" =>
        LET miss == MissingOnEntry(prev)
        IN  /\ DOMAIN prev \subseteq DOMAIN df
            /\ \A m \in DOMAIN df :
                  df[m] # RowAt(prev, m) =>
                      /\ m \in miss
                      /\ RunLength(miss, m) <= dukascopy_max
                      /\ ArchiveHasTicks(m)
                      /\ df[m].source = "dukascopy"
                      /\ df[m].close # NaN

\* C16 witness: a minute of a short run was filled from the archive, the
\* bar before it (in the padding, with ticks in the archive) kept its
\* values, and a minute of a run longer than the threshold that has ticks
\* in the archive is still missing
C16_Witness ==
    /\ pc = "backfilled"
    /\ \E m \in DOMAIN df :
          /\ df[m].source = "dukascopy"
          /\ RowAt(prev, m).close = NaN
          /\ RowAt(prev, m - 1).close # NaN
          /\ ArchiveHasTicks(m - 1)
          /\ df[m - 1] = prev[m - 1]
    /\ \E m \in DOMAIN df :
          /\ df[m].close = NaN
          /\ ArchiveHasTicks(m)
          /\ RunLength(MissingOnEntry(prev), m) > dukascopy_max


\* C17: impute_small_gaps leaves every gap run longer than max_gap_min
\* entirely missing: no minute of it gets a close, a volume or a source
\* tag, also when a shorter run lies next to it across the weekend.
C17_LongRunsUntouched ==
    pc = "imputed" =>
        LET miss == MissingMinutes(src)
        IN  \A m \in miss :
                RunLength(miss, m) > impute_max =>
                    /\ m \in DOMAIN df
                    /\ df[m] = RowAt(src, m)
                    /\ df[m].close = NaN

\* C17 witness: the run that ends on Friday 23:59 was short and filled, the
\* run that starts on Monday 00:00 was longer than max_gap_min and is
\* still missing
C17_Witness ==
    /\ pc = "imputed"
    /\ LET miss == MissingMinutes(src)
       IN  /\ {SatStart - 1, MonStart} \subseteq miss
           /\ RunLength(miss, SatStart - 1) <= impute_max
           /\ RunLength(miss, MonStart) > impute_max
           /\ df[SatStart - 1].source = "imputed"
           /\ df[MonStart].close = NaN


\* The bar of S at m is in T with the same prices and volume
SameBar(S, T, m) ==
    /\ m \in DOMAIN T
    /\ T[m].open = S[m].open
    /\ T[m].high = S[m].high
    /\ T[m].low = S[m].low
    /\ T[m].close = S[m].close
    /\ T[m].volume = S[m].volume

\* C19 (as stated): impute_small_gaps and apply_dukascopy_backfill never
\* lose an observed bar: every timestamp of the input with a non-missing
\* close, Saturday and Sunday included, is in the output with the same
\* open, high, low, close and volume.
C19_NoObservedBarLostAsStated ==
    pc \in {"imputed", "backfilled"} =>
        \A m \in Observed(src) : SameBar(src, df, m)

\* C19 (what the code keeps): the observed bars of Monday to Friday
C19_WeekdayBarsKept ==
    pc \in {"imputed", "backfilled"} =>
        /\ \A m \in Observed(src) : IsWeekdayMinute(m) => SameBar(src, df, m)
        /\ \A m \in DOMAIN df : IsWeekdayMinute(m)


RECURSIVE FlattenChunks(_)
\* The rows of the chunks, in the order they were written
FlattenChunks(chunks) ==
    IF chunks = <<>> THEN <<>> ELSE Head(chunks) \o FlattenChunks(Tail(chunks))

\* The timestamps of the Series in Series order
RECURSIVE InOrder(_)
InOrder(S) ==
    IF S = {} THEN <<>>
    ELSE LET x == CHOOSE a \in S : \A b \in S : a <= b IN <<x>> \o InOrder(S \ {x})

\* C20 (as stated): for a Series of n rows and a chunk size >= 1 the chunk
\* loop of to_postgres_copy ends after ceil(n / chunksize) copy calls, each
\* chunk holds at most chunksize rows, and across the chunks every row is
\* emitted exactly once, in Series order.
C20_ChunkLoopAsStated ==
    pc \in {"load_done", "load_raised"} =>
        LET n == Cardinality(DOMAIN df)
        IN  /\ copies = (n + chunksize - 1) \div chunksize
            /\ \A c \in DOMAIN emitted : Len(emitted[c]) <= chunksize
            /\ FlattenChunks(emitted) = InOrder(DOMAIN df)

\* C20 (what the code does): the chunks written are consecutive slices of
\* the Series in Series order, all but the last of exactly chunksize rows,
\* one per copy call, and they are the whole Series when the loop ends
\* without an error of copy_from.
C20_ChunksArePrefix ==
    LET n == Cardinality(DOMAIN df)
        rows == FlattenChunks(emitted)
    IN  pc \in {"copying", "load_done", "load_raised"} =>
            /\ Len(emitted) = copies
            /\ copies <= (n + chunksize - 1) \div chunksize
            /\ \A c \in DOMAIN emitted :
                  /\ Len(emitted[c]) >= 1
                  /\ Len(emitted[c]) <= chunksize
                  /\ c < Len(emitted) => Len(emitted[c]) = chunksize
            /\ Len(rows) <= n
            /\ rows = SubSeq(InOrder(DOMAIN df), 1, Len(rows))
            /\ pc = "load_done" => rows = InOrder(DOMAIN df)

===========================================================================
